---- MODULE Spec2Model ----
(***************************************************************************)
(* Model of package route (src/route.go): groups of routes and middleware, *)
(* their composition, and installation on an http.ServeMux.                *)
(*                                                                         *)
(* A handler value is modelled by what a request would run through: the    *)
(* base function that was registered and the stack of middleware closures  *)
(* around it, outermost first.  Each element of the stack also remembers   *)
(* which group's compose applied it (history information, "by"), and each  *)
(* route remembers the groups it was appended to ("from").                 *)
(***************************************************************************)
EXTENDS Integers, Sequences, FiniteSets, TLC

----------------------------------------------------------------------------
(* Bounds of the model. *)

\* Most Middleware values one group holds.
MaxMw == 2
\* Most routes one group holds.
MaxRoutes == 3
\* Most calls to exit that are recorded while the exit hook is overridden.
MaxErrs == 2
\* Longest argument list of one Wrap or Handle call in the general
\* argument enumeration.
MaxArgs == 2
\* Most calls made in one run of Spec, of SpecTree and of SpecArgs.
MaxOps == 5
TreeOps == 7
ArgOps == 3

Groups == {"G", "S", "T"}
Paths == {"/a", "/b"}
Bases == {"h1"}
GoodMw == {"m1", "m2"}
\* A middleware that returns nil whatever it is given.
BadMw == "bad"
NilMw == "nil"
NoMux == "nil"
\* One server per group (the one Compile allocates for it) and one that the
\* caller made and assigns to the exported field Mux.
ExtMux == "ext"
Servers == Groups \cup {ExtMux}

----------------------------------------------------------------------------
(* Handler values. *)

NilFunc == [base |-> "nil", adapted |-> FALSE, chain |-> <<>>]

Fn(b) == IF b = "nil" THEN NilFunc
         ELSE [base |-> b, adapted |-> FALSE, chain |-> <<>>]

\* wrap: the closure that calls h.ServeHTTP; h is a non-nil http.Handler.
wrap(b) == [base |-> b, adapted |-> TRUE, chain |-> <<>>]

\* m(hFunc), called from compose of group g.  A good middleware returns a
\* closure around its argument (also around a nil argument).
Apply(m, hFunc, g) ==
    IF m = BadMw THEN NilFunc
    ELSE [hFunc EXCEPT !.chain = <<[mw |-> m, by |-> g]>> \o @]

\* The names of the middleware around a handler, outermost first.
RECURSIVE MwOf(_)
MwOf(chain) ==
    IF chain = <<>> THEN <<>> ELSE <<Head(chain).mw>> \o MwOf(Tail(chain))

----------------------------------------------------------------------------
(* The errors of the package (the var block of errors), and exit. *)

errHandlerUsed == "http.Handle passed into middleware Wrap"
errHandleFormat == "format err, should be (<path>, <handler>) pairs"
errSwitchDefault == "switch default, unknown type"
errNilFunc == "nil returned from HandlerFunc in chain"
errNilHandlerFunc == "nil HandlerFunc"
errNilHandler == "nil http.Handler"
errNilMiddleware == "nil route.Middleware"
errNilGroup == "nil route.Group"
errFuncReturnNil == "function returned nil"
errGroupUsed == "want *route.Group not route.Group"

\* An argument of Wrap or Handle is a Go value in an interface: its dynamic
\* type (kind) and its value (val; aux holds the handler of a route value).
Item(k, v, a) == [kind |-> k, val |-> v, aux |-> a]

NoWhat == [type |-> "", value |-> <<"", "">>]

\* ": (%T)": the type of t alone.
whatType(t) == [type |-> t.kind, value |-> <<"", "">>]

\* what(t): ": (%T, %v)", the type and the value of t.
what(t) == [type |-> t.kind, value |-> <<t.val, t.aux>>]

\* One logged line: the function that logged it, the error, and what(t)
\* where the code prints it.
Line(fn, err, w) == [fname |-> fn, err |-> err, what |-> w]

\* log.Output then exit(1): with the package's own exit the process ends;
\* with the hook replaced by a function that returns (as the tests do) the
\* caller goes on.
Exit(st, fn, err, w) ==
    [st EXCEPT !.errs = Append(@, Line(fn, err, w)),
               !.status = IF st.hook = "os" THEN "exited" ELSE @]

\* log.Output then os.Exit(1), not through the hook (func wrap).
OsExit(st, fn, err) ==
    [st EXCEPT !.errs = Append(@, Line(fn, err, NoWhat)), !.status = "exited"]

\* A run-time panic (nil dereference, call of a nil func, ServeMux panic).
Panic(st) == [st EXCEPT !.status = "panicked"]

Running(st) == st.status = "running"

----------------------------------------------------------------------------
(* The server: http.ServeMux.  HandleFunc panics on a nil handler, on an   *)
(* empty pattern and on a pattern that is already registered.              *)

Binding(path, hFunc) == [path |-> path, handlerFunc |-> hFunc]

HandleFunc(st, srv, path, hFunc) ==
    IF \/ hFunc = NilFunc
       \/ path = ""
       \/ \E k \in 1..Len(st.bound[srv]) : st.bound[srv][k].path = path
    THEN Panic(st)
    ELSE [st EXCEPT !.bound[srv] = Append(@, Binding(path, hFunc))]

----------------------------------------------------------------------------
(* Group.compose *)

\* The inner loop without the check of what a middleware returns.
RECURSIVE ApplyMwaresUnchecked(_, _, _, _)
ApplyMwaresUnchecked(st, g, hFunc, j) ==
    IF j >= Len(st.mwares[g]) \/ ~Running(st)
    THEN [st |-> st, hFunc |-> hFunc]
    ELSE LET reverseIndexJ == Len(st.mwares[g]) - 1 - j
             m == st.mwares[g][reverseIndexJ + 1]
         IN  IF m = NilMw
             THEN [st |-> Panic(st), hFunc |-> hFunc]
             ELSE ApplyMwaresUnchecked(st, g, Apply(m, hFunc, g), j + 1)

\* The inner loop of compose: the middleware of g, last one first, applied
\* to hFunc.  j is the loop counter.  The result is the state and hFunc.
RECURSIVE ApplyMwares(_, _, _, _)
ApplyMwares(st, g, hFunc, j) ==
    IF j >= Len(st.mwares[g]) \/ ~Running(st)
    THEN [st |-> st, hFunc |-> hFunc]
    ELSE LET reverseIndexJ == Len(st.mwares[g]) - 1 - j
             m == st.mwares[g][reverseIndexJ + 1]
         IN  IF m = NilMw
             THEN \* the call of a nil func value
                  [st |-> Panic(st), hFunc |-> hFunc]
             ELSE LET h2 == Apply(m, hFunc, g)
                      s2 == IF h2 = NilFunc
                            THEN Exit(st, "compose", errFuncReturnNil, NoWhat)
                            ELSE st
                  IN  ApplyMwares(s2, g, h2, j + 1)

\* The outer loop without the check of the handler a route holds.
RECURSIVE ComposeFromUnchecked(_, _, _)
ComposeFromUnchecked(st, g, i) ==
    IF i >= Len(st.routes[g]) \/ ~Running(st)
    THEN st
    ELSE LET reverseIndex == Len(st.routes[g]) - 1 - i
             r == st.routes[g][reverseIndex + 1]
             w == ApplyMwares(st, g, r.handlerFunc, 0)
             s2 == w.st
             s3 == IF ~Running(s2) THEN s2
                   ELSE IF s2.Mux[g] = NoMux
                   THEN [s2 EXCEPT !.routes[g][reverseIndex + 1].handlerFunc = w.hFunc]
                   ELSE HandleFunc(s2, s2.Mux[g], r.path, w.hFunc)
         IN  ComposeFromUnchecked(s3, g, i + 1)

\* The outer loop without the reversed index: the routes of g, first one
\* first.
RECURSIVE ComposeFromForward(_, _, _)
ComposeFromForward(st, g, i) ==
    IF i >= Len(st.routes[g]) \/ ~Running(st)
    THEN st
    ELSE LET r == st.routes[g][i + 1]
             s1 == IF r.handlerFunc = NilFunc
                   THEN Exit(st, "compose", errNilFunc, NoWhat)
                   ELSE st
             w == ApplyMwares(s1, g, r.handlerFunc, 0)
             s2 == w.st
             s3 == IF ~Running(s2) THEN s2
                   ELSE IF s2.Mux[g] = NoMux
                   THEN [s2 EXCEPT !.routes[g][i + 1].handlerFunc = w.hFunc]
                   ELSE HandleFunc(s2, s2.Mux[g], r.path, w.hFunc)
         IN  ComposeFromForward(s3, g, i + 1)

\* The outer loop with one handler shared by every pass: each route is
\* composed from the handler of the last one.
RECURSIVE ComposeFromShared(_, _, _)
ComposeFromShared(st, g, i) ==
    IF i >= Len(st.routes[g]) \/ ~Running(st)
    THEN st
    ELSE LET reverseIndex == Len(st.routes[g]) - 1 - i
             r == st.routes[g][reverseIndex + 1]
             last == st.routes[g][Len(st.routes[g])]
             s1 == IF r.handlerFunc = NilFunc
                   THEN Exit(st, "compose", errNilFunc, NoWhat)
                   ELSE st
             w == ApplyMwares(s1, g, last.handlerFunc, 0)
             s2 == w.st
             s3 == IF ~Running(s2) THEN s2
                   ELSE IF s2.Mux[g] = NoMux
                   THEN [s2 EXCEPT !.routes[g][reverseIndex + 1].handlerFunc = w.hFunc]
                   ELSE HandleFunc(s2, s2.Mux[g], r.path, w.hFunc)
         IN  ComposeFromShared(s3, g, i + 1)

\* The outer loop of compose: the routes of g, last one first.
RECURSIVE ComposeFrom(_, _, _)
ComposeFrom(st, g, i) ==
    IF i >= Len(st.routes[g]) \/ ~Running(st)
    THEN st
    ELSE LET reverseIndex == Len(st.routes[g]) - 1 - i
             r == st.routes[g][reverseIndex + 1]
             s1 == IF r.handlerFunc = NilFunc
                   THEN Exit(st, "compose", errNilFunc, NoWhat)
                   ELSE st
             w == ApplyMwares(s1, g, r.handlerFunc, 0)
             s2 == w.st
             s3 == IF ~Running(s2) THEN s2
                   ELSE IF s2.Mux[g] = NoMux
                   THEN [s2 EXCEPT !.routes[g][reverseIndex + 1].handlerFunc = w.hFunc]
                   ELSE HandleFunc(s2, s2.Mux[g], r.path, w.hFunc)
         IN  ComposeFrom(s3, g, i + 1)

\* The loop begun one pass late: the last route is left out.
composeButLast(st, g) == ComposeFrom(st, g, 1)

compose(st, g) == ComposeFrom(st, g, 0)

\* Group.Compile.  g.Mux = &http.ServeMux{} is a new server each time:
\* bound[g] is what the server that Compile last made for g holds.
Compile(st, g) ==
    LET s1 == IF st.Mux[g] = NoMux
              THEN [st EXCEPT !.Mux[g] = g, !.bound[g] = <<>>]
              ELSE st
    IN  compose(s1, g)

----------------------------------------------------------------------------
(* Group.Wrap *)

RECURSIVE WrapFrom(_, _, _, _)
WrapFrom(st, g, mw, i) ==
    IF i >= Len(mw) \/ ~Running(st)
    THEN st
    ELSE LET t == mw[i + 1]
             s1 == CASE t.kind = "Middleware" ->
                        LET e == IF t.val = NilMw
                                 THEN Exit(st, "Wrap", errNilMiddleware, NoWhat)
                                 ELSE st
                        IN  IF Running(e)
                            THEN [e EXCEPT !.mwares[g] = Append(@, t.val)]
                            ELSE e
                     [] t.kind = "func" ->
                        [st EXCEPT !.mwares[g] = Append(@, t.val)]
                     [] t.kind = "Handler" ->
                        Exit(st, "Wrap", errHandlerUsed, NoWhat)
                     [] OTHER ->
                        Exit(st, "Wrap", errSwitchDefault, what(t))
         IN  WrapFrom(s1, g, mw, i + 1)

\* The arguments taken last one first.
WrapReversed(st, g, mw) ==
    WrapFrom(st, g, [k \in 1..Len(mw) |-> mw[Len(mw) + 1 - k]], 0)

Wrap(st, g, mw) == WrapFrom(st, g, mw, 0)

----------------------------------------------------------------------------
(* Group.Handle *)

\* A route.  from is history: the groups it was appended to, first one
\* first, each with the middleware the group held when the route left it
\* for the next one (none yet for the group that holds it now).
Route(path, hFunc, from) == [path |-> path, handlerFunc |-> hFunc, from |-> from]

In(g) == [g |-> g, mws |-> <<>>]

\* The routes rs of t copied into g last one first.
RECURSIVE CopyReversed(_, _, _)
CopyReversed(rs, g, ms) ==
    IF rs = <<>> THEN <<>>
    ELSE CopyReversed(Tail(rs), g, ms)
         \o <<[Head(rs) EXCEPT
                 !.from = Append([@ EXCEPT ![Len(@)].mws = ms], In(g))]>>

\* append(g.routes, t.routes...): the routes rs of t, copied into g.
RECURSIVE CopyInto(_, _, _)
CopyInto(rs, g, ms) ==
    IF rs = <<>> THEN <<>>
    ELSE <<[Head(rs) EXCEPT
              !.from = Append([@ EXCEPT ![Len(@)].mws = ms], In(g))]>>
         \o CopyInto(Tail(rs), g, ms)

\* The append before the composition, and the middleware of t then applied
\* to everything g holds.
AddGroupLate(st, g, t) ==
    LET s1 == [st EXCEPT !.routes[g] =
                             @ \o CopyInto(st.routes[t], g, st.mwares[t])]
        s2 == compose([s1 EXCEPT !.mwares[g] = st.mwares[t], !.Mux[g] = NoMux], g)
    IN  [s2 EXCEPT !.mwares[g] = st.mwares[g], !.Mux[g] = st.Mux[g]]

\* case *Group, past the nil check: t = t.compose(), then the append.
AddGroup(st, g, t) ==
    LET s1 == compose(st, t)
    IN  IF Running(s1)
        THEN [s1 EXCEPT !.routes[g] =
                            @ \o CopyInto(s1.routes[t], g, s1.mwares[t])]
        ELSE s1

\* The append of a handler that is wrapped as it is registered, with the
\* middleware the group has by then.
AddRouteWrapped(st, g, i, offset, path, hFunc) ==
    LET s1 == IF (i + offset) % 2 # 1
              THEN Exit(st, "Handle", errHandleFormat, NoWhat)
              ELSE st
        w == ApplyMwares(s1, g, hFunc, 0)
    IN  IF Running(w.st)
        THEN [w.st EXCEPT !.routes[g] = Append(@, Route(path, w.hFunc, <<In(g)>>))]
        ELSE w.st

\* The check that a handler is the second of a pair, then the append.
AddRoute(st, g, i, offset, path, hFunc) ==
    LET s1 == IF (i + offset) % 2 # 1
              THEN Exit(st, "Handle", errHandleFormat, NoWhat)
              ELSE st
    IN  IF Running(s1)
        THEN [s1 EXCEPT !.routes[g] = Append(@, Route(path, hFunc, <<In(g)>>))]
        ELSE s1

RECURSIVE HandleFrom(_, _, _, _, _, _)
HandleFrom(st, g, h, i, path, offset) ==
    IF i >= Len(h) \/ ~Running(st)
    THEN st
    ELSE LET t == h[i + 1] IN
         CASE t.kind = "Group" ->
              HandleFrom(Exit(st, "Handle", errGroupUsed, NoWhat),
                         g, h, i + 1, path, offset)
           [] t.kind = "*Group" ->
              LET s1 == IF t.val = "nil"
                        THEN Exit(st, "Handle", errNilGroup, NoWhat)
                        ELSE st
                  s2 == IF ~Running(s1) THEN s1
                        ELSE IF t.val = "nil"
                        THEN \* compose with a nil receiver reads g.routes
                             Panic(s1)
                        ELSE AddGroup(s1, g, t.val)
              IN  HandleFrom(s2, g, h, i + 1, path, offset + 1)
           [] t.kind = "HandlerFunc" ->
              LET s1 == IF t.val = "nil"
                        THEN Exit(st, "Handle", errNilHandlerFunc, NoWhat)
                        ELSE st
                  s2 == IF Running(s1)
                        THEN AddRoute(s1, g, i, offset, path, Fn(t.val))
                        ELSE s1
              IN  HandleFrom(s2, g, h, i + 1, path, offset)
           [] t.kind = "Handler" ->
              HandleFrom(AddRoute(st, g, i, offset, path, wrap(t.val)),
                         g, h, i + 1, path, offset)
           [] t.kind = "func" ->
              HandleFrom(AddRoute(st, g, i, offset, path, Fn(t.val)),
                         g, h, i + 1, path, offset)
           [] t.kind = "string" ->
              LET s1 == IF (i + offset) % 2 # 0
                        THEN Exit(st, "Handle", errHandleFormat, NoWhat)
                        ELSE st
              IN  HandleFrom(s1, g, h, i + 1,
                             IF Running(s1) THEN t.val ELSE path, offset)
           [] OTHER ->
              HandleFrom(Exit(st, "Handle", errSwitchDefault, what(t)),
                         g, h, i + 1, path, offset)

\* The arguments are evaluated before the call: a route value among them
\* was made by the package's Handle, which ends the process in wrap when
\* its handler is nil.
RECURSIVE MakeRoutes(_, _)
MakeRoutes(st, h) ==
    IF h = <<>> \/ ~Running(st) THEN st
    ELSE MakeRoutes(IF Head(h).kind = "route" /\ Head(h).aux = "nil"
                    THEN OsExit(st, "wrap", errNilHandler)
                    ELSE st,
                    Tail(h))

Handle(st, g, h) == HandleFrom(MakeRoutes(st, h), g, h, 0, "", 0)

----------------------------------------------------------------------------
(* The program: its state, and one action for each call a caller makes. *)

VARIABLES
    mwares,   \* Group.mwares of each group
    routes,   \* Group.routes of each group
    Mux,      \* Group.Mux of each group: NoMux or a server
    bound,    \* what each server has registered, in the order of the calls
    errs,     \* the lines logged before each exit
    status,   \* "running", "exited" (os.Exit) or "panicked"
    hook,     \* var exit: "os" (the package's own) or "captured" (replaced)
    op        \* the last call made

vars == <<mwares, routes, Mux, bound, errs, status, hook, op>>

State == [mwares |-> mwares, routes |-> routes, Mux |-> Mux, bound |-> bound,
          errs |-> errs, status |-> status, hook |-> hook]

Becomes(st, o) ==
    /\ mwares' = st.mwares
    /\ routes' = st.routes
    /\ Mux' = st.Mux
    /\ bound' = st.bound
    /\ errs' = st.errs
    /\ status' = st.status
    /\ hook' = st.hook
    /\ op' = o

\* The last call, and how many calls were made so far.
Call(kind, g, args) == [kind |-> kind, g |-> g, args |-> args, n |-> op.n + 1]

\* NewGroup for every group; the package's exit; no server yet.
Init ==
    /\ mwares = [g \in Groups |-> <<>>]
    /\ routes = [g \in Groups |-> <<>>]
    /\ Mux = [g \in Groups |-> NoMux]
    /\ bound = [s \in Servers |-> <<>>]
    /\ errs = <<>>
    /\ status = "running"
    /\ hook = "os"
    /\ op = [kind |-> "NewGroup", g |-> "", args |-> <<>>, n |-> 0]

\* The values a caller can pass to Wrap: a Middleware, a plain func of the
\* same signature (either can be nil), an http.Handler, anything else.
WrapItems ==
    {Item("Middleware", m, "") : m \in {"m1", BadMw, NilMw}}
    \cup {Item("func", m, "") : m \in {"m2", NilMw}}
    \cup {Item("Handler", b, "") : b \in Bases}
    \cup {Item("int", "42", ""), Item("<nil>", "<nil>", "")}

\* The values a caller can pass to Handle: a path, a handler in each of the
\* three forms, a *Group (S, or nil), a Group by value, a route made by the
\* package's Handle, anything else.
HandleItems ==
    {Item("string", p, "") : p \in Paths}
    \cup {Item("HandlerFunc", b, "") : b \in Bases \cup {"nil"}}
    \cup {Item("Handler", b, "") : b \in Bases}
    \cup {Item("func", b, "") : b \in Bases \cup {"nil"}}
    \cup {Item("*Group", g, "") : g \in {"S", "nil"}}
    \cup {Item("Group", "S", "")}
    \cup {Item("route", "/a", b) : b \in Bases \cup {"nil"}}
    \cup {Item("int", "42", ""), Item("<nil>", "<nil>", "")}

ArgLists(items, n) == UNION {[1..k -> items] : k \in 1..n}

Live == status = "running" /\ Len(errs) < MaxErrs

\* g.Mux = m: the caller writes the exported field, at any time, with a
\* server of the caller's or with nil.
SetMux(g, m) ==
    /\ Live
    /\ Becomes([State EXCEPT !.Mux[g] = m],
               Call("Mux=", g, <<Item("*ServeMux", m, "")>>))

WrapCall(g, mw) ==
    /\ Live
    /\ Len(mwares[g]) + Len(mw) <= MaxMw
    /\ Becomes(Wrap(State, g, mw), Call("Wrap", g, mw))

HandleCall(g, h) ==
    /\ Live
    /\ LET st == Handle(State, g, h)
       IN  /\ \A x \in Groups : Len(st.routes[x]) <= MaxRoutes
           /\ Becomes(st, Call("Handle", g, h))

CompileCall(g) ==
    /\ Live
    /\ Becomes(Compile(State, g), Call("Compile", g, <<>>))

----------------------------------------------------------------------------
(* Spec: two groups, G and S, each of which can be registered into the     *)
(* other any number of times, built and composed by at most MaxOps calls.  *)

Pair == {"G", "S"}

\* The argument lists of the calls that build and compose groups: one or
\* two middleware, a (path, handler) pair, one subgroup; among them the nil
\* values and the nil-returning middleware.
WrapArgs ==
    {<<Item("Middleware", m, "")>> : m \in GoodMw \cup {BadMw, NilMw}}
    \cup {<<Item("func", NilMw, "")>>}
    \cup {<<Item("Middleware", "m1", ""), Item("func", "m2", "")>>}

HandleArgs(g) ==
    {<<Item("string", "/a", ""), Item("func", b, "")>> : b \in Bases \cup {"nil"}}
    \cup {<<Item("string", "/b", ""), Item("Handler", b, "")>> : b \in Bases}
    \cup {<<Item("string", "/b", ""), Item("HandlerFunc", "nil", "")>>}
    \cup {<<Item("*Group", t, "")>> : t \in Pair \ {g}}

Next ==
    \/ \E g \in Pair, m \in {ExtMux, NoMux} : op.n < MaxOps /\ SetMux(g, m)
    \/ \E g \in Pair, mw \in WrapArgs : op.n < MaxOps /\ WrapCall(g, mw)
    \/ \E g \in Pair : \E h \in HandleArgs(g) : op.n < MaxOps /\ HandleCall(g, h)
    \/ \E g \in Pair : op.n < MaxOps /\ CompileCall(g)

Spec == Init /\ [][Next]_vars

----------------------------------------------------------------------------
(* SpecTree: three groups, each with a path of its own: S and T can be     *)
(* registered into G, and T into S, in any order and any number of times;  *)
(* well-formed arguments only.                                             *)

PathOf(g) == CASE g = "G" -> "/g" [] g = "S" -> "/s" [] OTHER -> "/t"

Nesting == {<<"G", "S">>, <<"G", "T">>, <<"S", "T">>}

\* Which middleware each group is given: S both, G and T one each.
TreeMw == {<<"G", "m2">>, <<"S", "m1">>, <<"S", "m2">>, <<"T", "m1">>}

NextTree ==
    \/ \E gm \in TreeMw :
          op.n < TreeOps /\ WrapCall(gm[1], <<Item("Middleware", gm[2], "")>>)
    \/ \E g \in Groups :
          op.n < TreeOps
          /\ HandleCall(g, <<Item("string", PathOf(g), ""), Item("func", "h1", "")>>)
    \/ \E gx \in Nesting :
          op.n < TreeOps /\ HandleCall(gx[1], <<Item("*Group", gx[2], "")>>)
    \/ \E g \in {"G", "S"} : op.n < TreeOps /\ CompileCall(g)

SpecTree == Init /\ [][NextTree]_vars

----------------------------------------------------------------------------
(* SpecArgs: every argument list of up to MaxArgs values, passed to Wrap   *)
(* or to Handle of the new group G, and for Handle a subgroup together     *)
(* with a pair as well, with the exit hook as the package sets it or as    *)
(* the tests replace it; around that call, S is given a middleware and     *)
(* routes, G a route, and G is compiled.                                   *)

\* The tests assign exit = func(int) { exited = true } before they call.
InitArgs ==
    /\ mwares = [g \in Groups |-> <<>>]
    /\ routes = [g \in Groups |-> <<>>]
    /\ Mux = [g \in Groups |-> NoMux]
    /\ bound = [s \in Servers |-> <<>>]
    /\ errs = <<>>
    /\ status = "running"
    /\ hook \in {"os", "captured"}
    /\ op = [kind |-> "NewGroup", g |-> "", args |-> <<>>, n |-> 0]

\* g is as NewGroup returned it, and nothing was logged yet.
New(g) == mwares[g] = <<>> /\ routes[g] = <<>> /\ Mux[g] = NoMux /\ errs = <<>>

WrapLists == ArgLists(WrapItems, MaxArgs)

\* A subgroup and a (path, handler) pair in one call, the subgroup before,
\* inside or after the pair.
GroupAndPair ==
    LET sub == Item("*Group", "S", "")
        pairs == {<<Item("string", p, ""), Item(k, "h1", "")>> :
                     p \in Paths, k \in {"HandlerFunc", "Handler", "func"}}
    IN  UNION {{<<sub, x[1], x[2]>>, <<x[1], sub, x[2]>>, <<x[1], x[2], sub>>} :
                  x \in pairs}

HandleLists == ArgLists(HandleItems, MaxArgs) \cup GroupAndPair

NextArgs ==
    \/ op.n < ArgOps /\ WrapCall("S", <<Item("Middleware", "m1", "")>>)
    \/ op.n < ArgOps
       /\ \E p \in Paths :
             HandleCall("S", <<Item("string", p, ""), Item("func", "h1", "")>>)
    \/ op.n < ArgOps /\ ~New("G")
       /\ HandleCall("G", <<Item("string", "/b", ""), Item("Handler", "h1", "")>>)
    \/ op.n < ArgOps /\ New("G") /\ \E mw \in WrapLists : WrapCall("G", mw)
    \/ op.n < ArgOps /\ New("G") /\ \E h \in HandleLists : HandleCall("G", h)
    \/ op.n < ArgOps /\ CompileCall("G")

SpecArgs == InitArgs /\ [][NextArgs]_vars

----------------------------------------------------------------------------
(* What the claims are stated with. *)

Range(f) == {f[k] : k \in DOMAIN f}

\* The closures that the middleware ms, given in call order, put around a
\* handler when group g applies them so that ms[1] is outermost.
Tagged(ms, g) == [k \in 1..Len(ms) |-> [mw |-> ms[k], by |-> g]]

\* m0(m1(...mk(h))) for ms = <<m0, ..., mk>>.
Nest(ms, h, g) == [h EXCEPT !.chain = Tagged(ms, g) \o @]

\* The server of g holds path with handler hFunc.
Bound(g, path, hFunc) ==
    /\ Mux[g] # NoMux
    /\ \E k \in 1..Len(bound[Mux[g]]) : bound[Mux[g]][k] = Binding(path, hFunc)

\* What the server that a Compile of g binds on holds before the call: a
\* new server holds nothing.
Before(g) == IF Mux[g] = NoMux THEN <<>> ELSE bound[Mux[g]]

\* The step gives no server a binding.
BindsNothing ==
    bound' = IF op'.kind = "Compile" /\ Mux[op'.g] = NoMux
             THEN [bound EXCEPT ![op'.g] = <<>>]
             ELSE bound

\* The last call was this kind of call and the program goes on.
Did(kind) == op.kind = kind /\ status = "running"

\* The step is a call Handle(t) on g with the one *Group t, and returns.
Nests(g, t) ==
    /\ op'.kind = "Handle" /\ op'.g = g
    /\ op'.args = <<Item("*Group", t, "")>>
    /\ status' = "running"

----------------------------------------------------------------------------
(* C1: when Compile of a group whose middleware is <<m0, ..., mk>> in call *)
(* order returns, every unit registered directly on the group, with base   *)
(* handler h, is bound on the server with m0(m1(...mk(h))): the first      *)
(* middleware attached is the outermost, the last the innermost, and       *)
(* nothing else is around h.                                               *)

\* The handler a unit was registered with, whatever was put around it since.
BaseOf(hFunc) == [hFunc EXCEPT !.chain = <<>>]

C1_FirstRegisteredOutermost ==
    \A g \in Groups :
       (Did("Compile") /\ op.g = g) =>
          \A i \in 1..Len(routes[g]) :
             routes[g][i].from = <<In(g)>> =>
                Bound(g, routes[g][i].path,
                      Nest(mwares[g], BaseOf(routes[g][i].handlerFunc), g))

----------------------------------------------------------------------------
(* C2: a middleware attached to subgroup S and to no other group is around *)
(* no unit that did not come through S: not around the units registered on *)
(* the parent itself, not around those of a sibling subgroup; neither in   *)
(* the parent's routes nor in what its Compile binds.                      *)

\* The groups a route was appended to.
CameThrough(r) == {r.from[k].g : k \in 1..Len(r.from)}

OnlyOn(m, s) ==
    /\ m \in Range(mwares[s])
    /\ \A x \in Groups \ {s} : m \notin Range(mwares[x])

Around(hFunc) == Range(MwOf(hFunc.chain))

C2_SubgroupIsolation ==
    \A g \in Groups, s \in Groups, m \in GoodMw :
       OnlyOn(m, s) =>
          \A i \in 1..Len(routes[g]) :
             s \notin CameThrough(routes[g][i]) =>
                /\ m \notin Around(routes[g][i].handlerFunc)
                /\ (Did("Compile") /\ op.g = g) =>
                      \A k \in 1..Len(bound[Mux[g]]) :
                         bound[Mux[g]][k].path = routes[g][i].path =>
                            m \notin Around(bound[Mux[g]][k].handlerFunc)

\* G is compiled holding a unit of its own, one that came from S with the
\* middleware only S has, and one that came from the sibling T.
C2_Witness ==
    /\ Did("Compile") /\ op.g = "G"
    /\ OnlyOn("m1", "S")
    /\ \E i, j, k \in 1..Len(routes["G"]) :
          /\ routes["G"][i].from = <<In("G")>>
          /\ CameThrough(routes["G"][j]) = {"S", "G"}
          /\ Bound("G", routes["G"][j].path,
                   Nest(<<"m1">>, Fn("h1"), "S"))
          /\ CameThrough(routes["G"][k]) = {"T", "G"}
          /\ Bound("G", routes["G"][k].path, Fn("h1"))
          /\ Bound("G", routes["G"][i].path, Fn("h1"))

----------------------------------------------------------------------------
(* C3: what Compile of G installs for a unit that reached G through nested *)
(* subgroups is G's middleware around the middleware of the subgroup it    *)
(* came from, around that of the subgroup before it, ..., around the       *)
(* handler as registered: the middleware of each group once, the group's   *)
(* first one outermost.                                                    *)

\* The closures of the groups a route has left, the last one left outermost.
RECURSIVE Layers(_)
Layers(from) ==
    IF Len(from) <= 1 THEN <<>>
    ELSE Layers(Tail(from)) \o Tagged(Head(from).mws, Head(from).g)

\* The handler a route of g ought to be bound with.
Nested(g, r) ==
    [r.handlerFunc EXCEPT !.chain = Tagged(mwares[g], g) \o Layers(r.from)]

C3_NestedChains ==
    \A g \in Groups :
       (Did("Compile") /\ op.g = g) =>
          \A i \in 1..Len(routes[g]) :
             Bound(g, routes[g][i].path, Nested(g, routes[g][i]))

----------------------------------------------------------------------------
(* C4: while the program goes on, no handler a group holds or a server has *)
(* bound carries a middleware of some group more often than that group     *)
(* holds it: composing a group again (a second Compile, a second           *)
(* registration as a subgroup) does not put its middleware around a unit a *)
(* second time.                                                            *)

Count(seq, x) == Cardinality({k \in 1..Len(seq) : seq[k] = x})

AppliedOnce(hFunc) ==
    \A x \in Groups, m \in GoodMw :
       Count(hFunc.chain, [mw |-> m, by |-> x]) <= Count(mwares[x], m)

C4_NoDoubleApplication ==
    status = "running" =>
       /\ \A g \in Groups : \A i \in 1..Len(routes[g]) :
             AppliedOnce(routes[g][i].handlerFunc)
       /\ \A s \in Servers : \A k \in 1..Len(bound[s]) :
             AppliedOnce(bound[s][k].handlerFunc)

----------------------------------------------------------------------------
(* C5: a call of Wrap with a nil middleware among its arguments, as a      *)
(* Middleware or as a plain func of the same signature, ends with the      *)
(* fatal errNilMiddleware; and no group ever holds a nil middleware.       *)

NilMiddleware(t) == t.kind \in {"Middleware", "func"} /\ t.val = NilMw

C5_NilMiddlewareFatal ==
    /\ (op.kind = "Wrap" /\ \E k \in 1..Len(op.args) : NilMiddleware(op.args[k])) =>
          /\ status = "exited"
          /\ errs[Len(errs)].err = errNilMiddleware
    /\ \A g \in Groups : NilMw \notin Range(mwares[g])

----------------------------------------------------------------------------
(* C6: a call of Handle with a nil handler in a pair, in any of the forms  *)
(* that can be nil, ends with a fatal error for the nil handler; and no    *)
(* group ever holds a route whose handler is nil.                          *)

NilHandler(t) == t.kind \in {"HandlerFunc", "func"} /\ t.val = "nil"

C6_NilHandlerFatal ==
    /\ (op.kind = "Handle" /\ \E k \in 1..Len(op.args) : NilHandler(op.args[k])) =>
          /\ status = "exited"
          /\ errs[Len(errs)].err \in {errNilHandlerFunc, errNilHandler}
    /\ \A g \in Groups : \A i \in 1..Len(routes[g]) :
          routes[g][i].handlerFunc # NilFunc

----------------------------------------------------------------------------
(* C7, as the code has it: an item of Handle whose type is none of string, *)
(* the three handler forms, *Group and Group raises errSwitchDefault with  *)
(* the type and the contents of the item, and adds no route; a Group by    *)
(* value raises errGroupUsed and a nil *Group errNilGroup, both without    *)
(* the value.  With the package's exit the first such item ends the call;  *)
(* with the hook replaced every such item of the call is logged, in order. *)

Unrecognized(t) ==
    t.kind \notin {"string", "HandlerFunc", "Handler", "func", "*Group", "Group"}

IsHandler(t) == t.kind \in {"HandlerFunc", "Handler", "func"}

IsDefault(l) == l.err = errSwitchDefault

\* The line that names the type and the contents of t.
Says(t) ==
    Line("Handle", errSwitchDefault, [type |-> t.kind, value |-> <<t.val, t.aux>>])

HowMany(h, kinds) == Cardinality({k \in 1..Len(h) : h[k].kind \in kinds})

\* No argument is a route that the package's Handle could not make.
Made(h) == \A k \in 1..Len(h) : ~(h[k].kind = "route" /\ h[k].aux = "nil")

C7_Step ==
    LET h == op'.args IN
    (op'.kind = "Handle" /\ op'.g = "G" /\ errs = <<>> /\ Made(h)) =>
      /\ (hook = "os" /\ Unrecognized(h[1])) =>
            errs' = <<Says(h[1])>> /\ status' = "exited" /\ routes' = routes
      /\ (hook = "os" /\ h[1].kind = "Group") =>
            /\ errs' = <<Line("Handle", errGroupUsed, NoWhat)>>
            /\ status' = "exited" /\ routes' = routes
      /\ (hook = "os" /\ h[1] = Item("*Group", "nil", "")) =>
            /\ errs' = <<Line("Handle", errNilGroup, NoWhat)>>
            /\ status' = "exited" /\ routes' = routes
      /\ (hook = "os" /\ errs' # <<>> /\ IsDefault(errs'[1])) =>
            /\ Len(errs') = 1 /\ status' = "exited"
            /\ errs'[1] = Says(SelectSeq(h, Unrecognized)[1])
      /\ (hook = "captured" /\ status' = "running") =>
            /\ SelectSeq(errs', IsDefault)
                 = [k \in 1..HowMany(h, {"int", "<nil>", "route"}) |->
                      Says(SelectSeq(h, Unrecognized)[k])]
            /\ Len(routes'["G"]) =
                 Len(routes["G"]) + HowMany(h, {"HandlerFunc", "Handler", "func"})
                 + Len(routes["S"]) * HowMany(h, {"*Group"})

C7_UnknownTypeNamed == [][C7_Step]_vars

C7_Witness ==
    /\ op.kind = "Handle" /\ Len(op.args) = 2
    /\ op.args[1].kind = "string" /\ op.args[2] = Item("int", "42", "")
    /\ hook = "os" /\ status = "exited"
    /\ errs = <<Says(op.args[2])>>

\* C7 as claimed: every item that is neither part of a (path, handler) pair
\* nor a built *Group raises errSwitchDefault with its type and contents.
NotUnitNorGroup(t) ==
    /\ t.kind \notin {"string", "HandlerFunc", "Handler", "func", "route"}
    /\ ~(t.kind = "*Group" /\ t.val # "nil")

C7_OriginalStep ==
    LET h == op'.args IN
    (op'.kind = "Handle" /\ op'.g = "G" /\ errs = <<>> /\ Made(h)
        /\ NotUnitNorGroup(h[1])) =>
      /\ errs' # <<>>
      /\ errs'[1] = Says(h[1])
      /\ routes' = routes

C7_EveryOtherItemUnrecognized == [][C7_OriginalStep]_vars

----------------------------------------------------------------------------
(* C8: a call that registers a nil handler or a nil middleware logs one    *)
(* fatal error and ends the program in that call; and the call that logs   *)
(* an error for a nil value is a Wrap or a Handle and binds nothing.       *)

NilValued(o) ==
    \/ o.kind = "Wrap" /\ \E k \in 1..Len(o.args) : NilMiddleware(o.args[k])
    \/ o.kind = "Handle" /\ \E k \in 1..Len(o.args) : NilHandler(o.args[k])

NilErrors ==
    {errNilMiddleware, errNilHandlerFunc, errNilHandler, errNilFunc}

C8_Step ==
    /\ NilValued(op') =>
          /\ Len(errs') = Len(errs) + 1
          /\ errs'[Len(errs')].err \in NilErrors
          /\ status' = "exited"
    /\ (Len(errs') > Len(errs) /\ errs'[Len(errs')].err \in NilErrors) =>
          /\ op'.kind \in {"Wrap", "Handle"}
          /\ bound' = bound

C8_FatalOnceNothingInstalled == [][C8_Step]_vars

----------------------------------------------------------------------------
(* C9: the composition of a group that has no middleware changes no unit:  *)
(* Compile binds each route of the group on the server with the path and   *)
(* the handler the route holds, and binds nothing else; and a group with   *)
(* no middleware and no server that is registered into a parent keeps its  *)
(* routes, and the parent receives their paths and handlers as they are.   *)

Grown(g) == Len(routes'[g]) - Len(routes[g])

C9_Step ==
    /\ \A g \in Groups :
          (op'.kind = "Compile" /\ op'.g = g /\ mwares[g] = <<>>
              /\ status' = "running") =>
            LET srv == Mux'[g] IN
            /\ routes' = routes
            /\ Len(bound'[srv]) = Len(Before(g)) + Len(routes[g])
            /\ \A i \in 1..Len(routes[g]) :
                  \E k \in (Len(Before(g)) + 1)..Len(bound'[srv]) :
                     bound'[srv][k] =
                        Binding(routes[g][i].path, routes[g][i].handlerFunc)
    /\ \A g, t \in Groups :
          (Nests(g, t) /\ g # t /\ mwares[t] = <<>>) =>
            /\ Grown(g) = Len(routes[t])
            /\ \A i \in 1..Len(routes[t]) :
                  /\ routes'[g][Len(routes[g]) + i].path = routes[t][i].path
                  /\ routes'[g][Len(routes[g]) + i].handlerFunc =
                        routes[t][i].handlerFunc
            /\ Mux[t] = NoMux => routes'[t] = routes[t]

C9_NoMiddlewareUnchanged == [][C9_Step]_vars

\* G, without middleware, was compiled with two routes of its own whose
\* handlers differ, and its server holds both as they were registered.
C9_Witness ==
    /\ Did("Compile") /\ op.g = "G" /\ mwares["G"] = <<>>
    /\ Len(routes["G"]) = 2
    /\ routes["G"][1].handlerFunc # routes["G"][2].handlerFunc
    /\ \A i \in 1..2 :
          /\ routes["G"][i].from = <<In("G")>>
          /\ routes["G"][i].handlerFunc.chain = <<>>
          /\ Bound("G", routes["G"][i].path, routes["G"][i].handlerFunc)

----------------------------------------------------------------------------
(* C10: whenever a group t is registered into a group g, whether or not t  *)
(* has a server or was compiled before, the routes that g receives are the *)
(* routes of t with the whole middleware chain of t around their handlers. *)

C10_Step ==
    \A g, t \in Groups :
       (Nests(g, t) /\ g # t) =>
         /\ Grown(g) = Len(routes[t])
         /\ \A i \in 1..Len(routes[t]) :
               routes'[g][Len(routes[g]) + i].handlerFunc =
                  Nest(mwares[t], routes[t][i].handlerFunc, t)

C10_SubgroupEntersWrapped == [][C10_Step]_vars

----------------------------------------------------------------------------
(* C11: once g holds units that it received from the subgroup s, a later   *)
(* call of Wrap or of Handle on s changes neither the units of g nor its   *)
(* middleware nor its server, so that what Compile of g installs is what   *)
(* it would have installed before the call.                                *)

Holds(g, s) ==
    \E i \in 1..Len(routes[g]) :
       \E k \in 1..(Len(routes[g][i].from) - 1) :
          routes[g][i].from[k].g = s /\ routes[g][i].from[k + 1].g = g

C11_Step ==
    \A g, s \in Groups :
       (g # s /\ Holds(g, s) /\ op'.g = s /\ op'.kind \in {"Wrap", "Handle"}) =>
          /\ routes'[g] = routes[g]
          /\ mwares'[g] = mwares[g]
          /\ Mux'[g] = Mux[g]

C11_ConsumedByCopy == [][C11_Step]_vars

----------------------------------------------------------------------------
(* C12, as the code has it: composition takes the units of a group last    *)
(* registered first.  What a Compile of g adds to the server, whether it   *)
(* returns or ends in an error part of the way, is the bindings of the     *)
(* last units of g, the last one bound first: a unit is checked, wrapped   *)
(* and bound only after every unit registered after it.                    *)

\* What a Compile of g added to the server of g.
Added(g) ==
    [k \in 1..(Len(bound'[Mux'[g]]) - Len(Before(g))) |->
        bound'[Mux'[g]][Len(Before(g)) + k]]

\* The binding of the unit i of g under the middleware of g.
BindingOf(g, i) ==
    Binding(routes[g][i].path, Nest(mwares[g], routes[g][i].handlerFunc, g))

C12_Step ==
    \A g \in Groups :
       (op'.kind = "Compile" /\ op'.g = g) =>
          LET new == Added(g)
              n == Len(routes[g])
          IN  /\ Len(new) <= n
              /\ status' = "running" => Len(new) = n
              /\ \A k \in 1..Len(new) : new[k] = BindingOf(g, n + 1 - k)

C12_LastRegisteredFirst == [][C12_Step]_vars

\* G was compiled with "/a" registered before "/b": the server was given
\* "/b" first.
C12_Witness ==
    /\ Did("Compile") /\ op.g = "G" /\ Mux["G"] = "G"
    /\ Len(routes["G"]) = 2
    /\ routes["G"][1].path = "/a" /\ routes["G"][2].path = "/b"
    /\ Len(bound["G"]) = 2
    /\ bound["G"][1].path = "/b" /\ bound["G"][2].path = "/a"

\* C12 as claimed: the units are taken in registration order, so that what
\* a Compile adds to the server is the bindings of the first units of g,
\* the first one bound first.
C12_OriginalStep ==
    \A g \in Groups :
       (op'.kind = "Compile" /\ op'.g = g) =>
          LET new == Added(g)
          IN  /\ Len(new) <= Len(routes[g])
              /\ \A k \in 1..Len(new) : new[k] = BindingOf(g, k)

C12_RegistrationOrder == [][C12_OriginalStep]_vars

----------------------------------------------------------------------------
(* C13: a call of Handle whose arguments are paths, handlers and groups,   *)
(* and which, the groups left out, are not an alternation of a path and    *)
(* its handler, logs errHandleFormat; and when they are such an            *)
(* alternation, the call logs nothing and every unit it appends has the    *)
(* path given just before its handler.                                     *)

NotGroup(t) == t.kind # "*Group"

\* The arguments the format is about: a path, a handler that is not nil, or
\* a group that was built.
Formed(t) ==
    \/ t.kind = "string"
    \/ IsHandler(t) /\ t.val # "nil"
    \/ t.kind = "*Group" /\ t.val # "nil"

Alternates(h) ==
    LET u == SelectSeq(h, NotGroup) IN
    /\ Len(u) % 2 = 0
    /\ \A k \in 1..Len(u) :
          IF k % 2 = 1 THEN u[k].kind = "string" ELSE IsHandler(u[k])

C13_Step ==
    LET h == op'.args
        u == SelectSeq(h, NotGroup)
    IN
    (op'.kind = "Handle" /\ op'.g = "G" /\ errs = <<>>
        /\ \A k \in 1..Len(h) : Formed(h[k])) =>
      /\ ~Alternates(h) =>
            /\ errs' # <<>>
            /\ errs'[1] = Line("Handle", errHandleFormat, NoWhat)
      /\ Alternates(h) =>
            /\ errs' = <<>>
            /\ \A k \in 1..(Len(u) \div 2) :
                  \E i \in (Len(routes["G"]) + 1)..Len(routes'["G"]) :
                     /\ routes'["G"][i].path = u[2 * k - 1].val
                     /\ routes'["G"][i].handlerFunc.base = u[2 * k].val
                     /\ routes'["G"][i].from = <<In("G")>>

C13_MalformedIsFormatError == [][C13_Step]_vars

----------------------------------------------------------------------------
(* C14: when a middleware of a group returns nil for the unit that compose *)
(* takes first, the composition ends the program with errFuncReturnNil at  *)
(* that application: nothing is stored in a unit and nothing is bound by   *)
(* the call; and no unit or binding ever holds a handler that a middleware *)
(* made from a nil one.                                                    *)

\* Composing g, the first thing to fail is a middleware that returns nil:
\* g has a unit, the last one has a handler, and the middleware attached
\* after the last nil-returning one are functions.
ReturnsNilFirst(g) ==
    /\ routes[g] # <<>>
    /\ routes[g][Len(routes[g])].handlerFunc # NilFunc
    /\ \E j \in 1..Len(mwares[g]) :
          /\ mwares[g][j] = BadMw
          /\ \A k \in (j + 1)..Len(mwares[g]) : mwares[g][k] \in GoodMw

\* The step composes g: Compile of g, or Handle with the one *Group g.
Composes(g) ==
    \/ op'.kind = "Compile" /\ op'.g = g
    \/ op'.kind = "Handle" /\ op'.args = <<Item("*Group", g, "")>>

MadeFromNil(hFunc) == hFunc.base = "nil" /\ hFunc.chain # <<>>

C14_Step ==
    /\ \A g \in Groups :
          (Composes(g) /\ ReturnsNilFirst(g)) =>
             /\ status' = "exited"
             /\ errs' = Append(errs, Line("compose", errFuncReturnNil, NoWhat))
             /\ routes' = routes
             /\ BindsNothing
    /\ \A g \in Groups : \A i \in 1..Len(routes'[g]) :
          ~MadeFromNil(routes'[g][i].handlerFunc)
    /\ \A srv \in Servers : \A k \in 1..Len(bound'[srv]) :
          ~MadeFromNil(bound'[srv][k].handlerFunc)

C14_NilFromMiddlewareFatal == [][C14_Step]_vars

\* G, with a function attached before the nil-returning middleware and a
\* unit of its own, was compiled: the program ended there, nothing bound.
C14_Witness ==
    /\ op.kind = "Compile" /\ op.g = "G" /\ status = "exited"
    /\ mwares["G"] = <<"m1", BadMw>>
    /\ Len(routes["G"]) = 1 /\ routes["G"][1].handlerFunc = Fn("h1")
    /\ errs = <<Line("compose", errFuncReturnNil, NoWhat)>>
    /\ bound["G"] = <<>>

----------------------------------------------------------------------------
(* C15: when Compile of g returns and the server of g held nothing before, *)
(* the server holds one binding for each unit of g and no other: the       *)
(* unit's path with the middleware of g around the unit's handler.  And a  *)
(* composition changes neither the number of units of any group nor the    *)
(* path of any unit.                                                       *)

UnitPaths(rs) == [i \in 1..Len(rs) |-> rs[i].path]

C15_Step ==
    /\ \A g \in Groups :
          (op'.kind = "Compile" /\ op'.g = g /\ status' = "running"
              /\ Before(g) = <<>>) =>
            /\ Len(bound'[Mux'[g]]) = Len(routes[g])
            /\ Range(bound'[Mux'[g]]) =
                  {BindingOf(g, i) : i \in 1..Len(routes[g])}
    /\ \A g \in Groups :
          Composes(g) => UnitPaths(routes'[g]) = UnitPaths(routes[g])

C15_TableIsTheUnits == [][C15_Step]_vars

\* G, with a middleware, a unit of its own and a unit received from S, was
\* compiled on a server of its own: the server holds the two bindings.
C15_Witness ==
    /\ Did("Compile") /\ op.g = "G" /\ Mux["G"] = "G"
    /\ mwares["G"] # <<>>
    /\ Len(routes["G"]) = 2 /\ Len(bound["G"]) = 2
    /\ \E i, j \in 1..2 :
          /\ routes["G"][i].from = <<In("G")>>
          /\ CameThrough(routes["G"][j]) = {"S", "G"}
    /\ \A i \in 1..2 :
          Bound("G", routes["G"][i].path,
                Nest(mwares["G"], routes["G"][i].handlerFunc, "G"))

----------------------------------------------------------------------------
(* C16: a call of Handle on g with well-formed arguments appends to the    *)
(* units of g, in the order of the arguments, one unit for each (path,     *)
(* handler) pair and, where a subgroup stands, the units of that subgroup  *)
(* in the subgroup's own order; and no call of Handle removes, changes or  *)
(* moves a unit that g already holds.                                      *)

\* What the arguments h stand for: the path, the handler and the origin of
\* each unit, in order.  path is the last path read.
RECURSIVE Expect(_, _, _)
Expect(h, path, g) ==
    IF h = <<>> THEN <<>>
    ELSE LET t == Head(h) IN
         CASE t.kind = "string" -> Expect(Tail(h), t.val, g)
           [] t.kind = "*Group" ->
                [i \in 1..Len(routes[t.val]) |->
                    [path |-> routes[t.val][i].path,
                     base |-> routes[t.val][i].handlerFunc.base,
                     src |-> t.val]]
                \o Expect(Tail(h), path, g)
           [] OTHER ->
                <<[path |-> path, base |-> t.val, src |-> g]>>
                \o Expect(Tail(h), path, g)

\* The path, the handler and the origin of the unit r of g.
Seen(r, g) ==
    [path |-> r.path,
     base |-> r.handlerFunc.base,
     src |-> IF Len(r.from) = 1 THEN g ELSE r.from[Len(r.from) - 1].g]

C16_Step ==
    \A g \in Groups :
       (op'.kind = "Handle" /\ op'.g = g) =>
          /\ Len(routes'[g]) >= Len(routes[g])
          /\ \A i \in 1..Len(routes[g]) : routes'[g][i] = routes[g][i]
          /\ (status' = "running" /\ Alternates(op'.args)
                /\ \A k \in 1..Len(op'.args) : Formed(op'.args[k])) =>
                [i \in 1..Grown(g) |-> Seen(routes'[g][Len(routes[g]) + i], g)]
                   = Expect(op'.args, "", g)

C16_UnitsInCallOrder == [][C16_Step]_vars

\* One call gave G the two units of S, "/b" before "/a" as S holds them,
\* and then a unit of its own.
C16_Witness ==
    /\ Did("Handle") /\ op.g = "G" /\ Len(op.args) = 3
    /\ op.args[1] = Item("*Group", "S", "")
    /\ Len(routes["S"]) = 2
    /\ routes["S"][1].path = "/b" /\ routes["S"][2].path = "/a"
    /\ Len(routes["G"]) = 3
    /\ routes["G"][1].path = "/b" /\ routes["G"][2].path = "/a"
    /\ routes["G"][3].from = <<In("G")>>

----------------------------------------------------------------------------
(* C17: on one group, a call of Wrap and a call of Handle with a (path,    *)
(* handler) pair commute: wherever Wrap is called, the pair registered     *)
(* before the call or after it leaves the same groups, and Compile of the  *)
(* group then binds the unit under every middleware of the group, that of  *)
(* the call too.                                                           *)

\* The (path, handler) pairs of Spec.
PairArgs == {h \in HandleArgs("G") : h[1].kind = "string"}

WrapThenHandle(g, mw, h) == Handle(Wrap(State, g, mw), g, h)

HandleThenWrap(g, mw, h) == Wrap(Handle(State, g, h), g, mw)

\* The two orders agree, and what Compile then does.
Commute(g, mw, h) ==
    LET a == WrapThenHandle(g, mw, h)
        b == HandleThenWrap(g, mw, h)
        c == Compile(b, g)
        n == Len(b.routes[g])
    IN  (Running(a) /\ Running(b)) =>
           /\ a = b
           /\ (Running(c) /\ b.Mux[g] = NoMux) =>
                 \E k \in 1..Len(c.bound[g]) :
                    c.bound[g][k] =
                       Binding(b.routes[g][n].path,
                               [b.routes[g][n].handlerFunc EXCEPT
                                  !.chain = Tagged(b.mwares[g], g) \o @])

C17_Step ==
    \A g \in Pair :
       (op'.kind = "Wrap" /\ op'.g = g) =>
          \A h \in PairArgs : Commute(g, op'.args, h)

C17_WrapHandleCommute == [][C17_Step]_vars

\* G was given a unit, then a middleware, then a second unit, and was then
\* compiled: both units are bound under the middleware.
C17_Witness ==
    /\ Did("Compile") /\ op.g = "G" /\ op.n = 4 /\ Mux["G"] = "G"
    /\ mwares["G"] = <<"m1">>
    /\ Len(routes["G"]) = 2
    /\ Bound("G", "/a", Nest(<<"m1">>, Fn("h1"), "G"))
    /\ Bound("G", "/b", Nest(<<"m1">>, wrap("h1"), "G"))

----------------------------------------------------------------------------
(* C18: a call of Wrap that logs no error appends the middleware it was    *)
(* given, in the order of the arguments, to the middleware of the group it *)
(* was called on; no call of Wrap changes the middleware another group     *)
(* holds, what the group held before, or the units of any group; and no    *)
(* call of Handle changes the middleware of any group.                     *)

C18_Step ==
    /\ \A g \in Groups :
          (op'.kind = "Wrap" /\ op'.g = g) =>
             /\ routes' = routes
             /\ \A x \in Groups \ {g} : mwares'[x] = mwares[x]
             /\ Len(mwares'[g]) >= Len(mwares[g])
             /\ \A k \in 1..Len(mwares[g]) : mwares'[g][k] = mwares[g][k]
             /\ errs' = errs =>
                   mwares'[g] =
                      mwares[g] \o [k \in 1..Len(op'.args) |-> op'.args[k].val]
    /\ op'.kind = "Handle" => mwares' = mwares

C18_WrapAppendsHandleKeeps == [][C18_Step]_vars

\* G was given two middleware in one call while S held a middleware and
\* a unit: G holds the two in the order of the arguments, S what it held.
C18_Witness ==
    /\ Did("Wrap") /\ op.g = "G" /\ errs = <<>>
    /\ op.args = <<Item("Middleware", "m1", ""), Item("func", "m2", "")>>
    /\ mwares["G"] = <<"m1", "m2">>
    /\ mwares["S"] = <<"m1">>
    /\ Len(routes["S"]) = 1 /\ routes["S"][1].handlerFunc.chain = <<>>

----------------------------------------------------------------------------
(* C19: the composition of a group that holds a unit with a nil handler    *)
(* does not return; when that unit is the one compose takes first, the     *)
(* program ends with errNilFunc, whatever middleware the group has, with   *)
(* nothing stored and nothing bound; and the nil handler is neither given  *)
(* to a middleware nor bound: the unit stays as it is.                     *)

HasNil(g) == \E i \in 1..Len(routes[g]) : routes[g][i].handlerFunc = NilFunc

C19_Step ==
    \A g \in Groups :
       (Composes(g) /\ HasNil(g)) =>
          /\ status' # "running"
          /\ \A i \in 1..Len(routes[g]) :
                routes[g][i].handlerFunc = NilFunc =>
                   routes'[g][i].handlerFunc = NilFunc
          /\ \A srv \in Servers : \A k \in 1..Len(bound'[srv]) :
                bound'[srv][k].handlerFunc.base # "nil"
          /\ routes[g][Len(routes[g])].handlerFunc = NilFunc =>
                /\ status' = "exited"
                /\ errs' = Append(errs, Line("compose", errNilFunc, NoWhat))
                /\ routes' = routes
                /\ BindsNothing

C19_NilHandlerBeforeMiddleware == [][C19_Step]_vars

\* S, with a middleware and a unit whose handler is nil, was registered
\* into G: the program ended in compose and the unit is as it was.
C19_Witness ==
    /\ op.kind = "Handle" /\ op.g = "G"
    /\ op.args = <<Item("*Group", "S", "")>>
    /\ status = "exited"
    /\ errs = <<Line("compose", errNilFunc, NoWhat)>>
    /\ mwares["S"] = <<"m1">>
    /\ Len(routes["S"]) = 1 /\ routes["S"][1].handlerFunc = NilFunc
    /\ routes["G"] = <<>>

====
